---- MODULE Spec2Model ----
(***************************************************************************)
(* Team registration, score update, team lookup and scoreboard against the *)
(* Realtime Database, as implemented in src/lib/firestore.ts (the Realtime *)
(* Database module, lines 478-850) and called by the API routes            *)
(* update-score.ts, team.ts, register (part_003) and scoreboard.           *)
(*                                                                         *)
(* Strings are sequences of one-character strings, so that trimming and    *)
(* exact comparison are computed rather than assumed.  Every await on the  *)
(* store is one atomic step of the calling request; requests interleave    *)
(* at those steps.  A scoreboard subscription is the set of callbacks      *)
(* registered on the root and the queue of value events raised for them.   *)
(***************************************************************************)
EXTENDS Integers, Sequences, FiniteSets, TLC

(* ---------------- bounds of the model ---------------- *)

\* number of requests that can be in flight at the same time
NumProcs == 2

\* total number of calls started in one behaviour
MaxCalls == 3

\* number of minutes the clock of the OTP store advances in one behaviour
MaxTicks == 3

(* ---------------- program constants ---------------- *)

\* generateUID: for (let i = 0; i < 5; i++)
UidLen == 5

\* update-score.ts: scoreIncrement < -1000000 || scoreIncrement > 1000000
MaxIncrement == 1000000

\* index.tsx 344: teamName.trim().length < 2 || teamName.trim().length > 30
MinNameLen == 2

MaxNameLen == 30

\* otp.ts 21: expirationMinutes * 60 * 1000
MsPerMinute == 60000

\* generateUID: const chars = 'ABC...XYZabc...xyz0123456789'
chars ==
  << "A","B","C","D","E","F","G","H","I","J","K","L","M",
     "N","O","P","Q","R","S","T","U","V","W","X","Y","Z",
     "a","b","c","d","e","f","g","h","i","j","k","l","m",
     "n","o","p","q","r","s","t","u","v","w","x","y","z",
     "0","1","2","3","4","5","6","7","8","9" >>

(* ---------------- inputs the model draws from ---------------- *)

\* outcomes of the five Math.floor(Math.random() * chars.length) draws of one
\* generateUID call: the indices of "AAAAA" and of "qK234"
RandomDraws == { <<0, 0, 0, 0, 0>>, <<42, 10, 54, 55, 56>> }

\* team names as typed (already trimmed by the caller); two differ only in case
TeamNames == { <<"A","b">>, <<"A","B">> }

Emails == { <<"a","@","x",".","y">>, <<"b","@","x",".","y">> }

\* the remaining registration fields carry no logic in registerTeam
Player1 == <<"P","1">>

Player2 == <<"P","2">>

PhoneNumber == <<"1","2","3","4","5","6","7","8","9","0">>

\* a JavaScript number is held as a whole number of halves, so that a score
\* or an increment with a fractional part can be told from an integer
ScoreUnit == 2

\* JSON values of a request body
Undefined == [t |-> "undefined"]

Str(s) == [t |-> "string", v |-> s]

\* the integer n
Num(n) == [t |-> "number", v |-> n * ScoreUnit]

\* the number n + 1/2
NumAndHalf(n) == [t |-> "number", v |-> n * ScoreUnit + 1]

\* body.uid of POST /api/update-score
BodyUids ==
  { Undefined,
    Str(<< >>),
    Str(<<" ">>),
    Str(<<"A","A","A","A","A">>),
    Str(<<" ","A","A","A","A","A"," ">>),
    Num(7) }

\* body.scoreIncrement of POST /api/update-score
BodyIncrements ==
  { Undefined, Num(-3), Num(2), Num(2000000), Str(<<"5">>) }

\* increments of direct updateScoreByTeamName calls
LibIncrements == { 2 }

\* body.uid and body.scoreIncrement of the requests that probe the accepted
\* range: zero, both bounds, and the first value beyond each bound
RangeUids == { Undefined, Str(<<"A","A","A","A","A">>) }

RangeIncrements ==
  { Num(0), Num(-MaxIncrement), Num(MaxIncrement),
    Num(-MaxIncrement - 1), Num(MaxIncrement + 1), NumAndHalf(1) }

\* uid and teamName parameters of /api/team requests: absent, a registered
\* one, an unknown one, and (uid) one with a character no path may contain
TeamUids ==
  { Undefined,
    Str(<<"A","A","A","A","A">>),
    Str(<<"Z","Z","Z","Z","Z">>),
    Str(<<"A",".","b">>) }

TeamNameParams == { Undefined, Str(<<"A","b">>), Str(<<"Z","z">>) }

Methods == { "GET", "POST" }

\* the ways a registration arrives: POST /api/register, and the form of the
\* registration page
Routes == { "api", "form" }

\* team names as submitted: a regular one, one of a single character, one
\* that trims to a single character, and one of 31 characters
SubmittedNames ==
  { <<"A","b">>, <<"A">>, <<" ","A"," ">>, [i \in 1..(MaxNameLen + 1) |-> "x"] }

\* emails as submitted: a well-formed one and one without a dot after the @
SubmittedEmails == { <<"a","@","x",".","y">>, <<"a","@","x">> }

\* emails given to storeOTP and verifyOTP: one address in two letter cases
OtpEmails == { <<"a","@","x",".","y">>, <<"A","@","X",".","y">> }

\* one-time passwords, as generateOTP's six-digit strings
Otps == { "111111", "222222" }

\* expirationMinutes
ExpirationMinutes == { 1, 2 }

(* ---------------- pure functions ---------------- *)

\* variant: the loop stops one character early
generateUIDShort(draw) == [i \in 1..(UidLen - 1) |-> chars[draw[i] + 1]]

\* generateUID (firestore.ts 514-521): result += chars.charAt(index), 5 times
generateUID(draw) == [i \in 1..UidLen |-> chars[draw[i] + 1]]

\* String.prototype.toLowerCase on the letters A-Z
LowerChar(c) ==
  IF \E i \in 1..26 : chars[i] = c
  THEN chars[(CHOOSE i \in 1..26 : chars[i] = c) + 26]
  ELSE c

ToLowerCase(s) == [i \in 1..Len(s) |-> LowerChar(s[i])]

\* otpStore.delete(key)
DeleteKey(store, key) == [ k \in DOMAIN store \ { key } |-> store[k] ]

\* otpStore.set(key, value)
SetKey(store, key, value) ==
  [ k \in DOMAIN store \cup { key } |-> IF k = key THEN value ELSE store[k] ]

\* variant: an entry never counts as expired
IsExpiredNever(time, expires) == FALSE

\* verifyOTP line 40: Date.now() > stored.expires
IsExpired(time, expires) == time > expires

\* variant: a valid OTP stays in the store
AfterValidKeep(store, key) == store

\* verifyOTP lines 49-50: the valid OTP is removed from the store
AfterValid(store, key) == DeleteKey(store, key)

\* verifyOTP (otp.ts 33-52) on a store: the value returned and the store left
VerifyIn(store, time, email, providedOTP) ==
  LET key == ToLowerCase(email)
  IN IF key \notin DOMAIN store
     THEN [ result |-> FALSE, store |-> store ]
     ELSE IF IsExpired(time, store[key].expires)
     THEN [ result |-> FALSE, store |-> DeleteKey(store, key) ]
     ELSE IF store[key].otp # providedOTP
     THEN [ result |-> FALSE, store |-> store ]
     ELSE [ result |-> TRUE, store |-> AfterValid(store, key) ]

\* String.prototype.trim restricted to the space character
RECURSIVE TrimLeft(_)
TrimLeft(s) ==
  IF s # << >> /\ Head(s) = " " THEN TrimLeft(Tail(s)) ELSE s

RECURSIVE TrimRight(_)
TrimRight(s) ==
  IF s # << >> /\ s[Len(s)] = " " THEN TrimRight(SubSeq(s, 1, Len(s) - 1)) ELSE s

Trim(s) == TrimRight(TrimLeft(s))

\* characters the database client rejects in a path
InvalidPathChars == { ".", "#", "$", "[", "]" }

\* ref(db, path): the client validates the path and throws on an empty one
\* or one with a forbidden character
IsValidPath(path) ==
  /\ path # << >>
  /\ \A i \in 1..Len(path) : path[i] \notin InvalidPathChars

(* ---------------- the store: one node per key under the root ---------------- *)

\* snapshot.exists() of get(ref(db, path))
Exists(store, path) == path \in DOMAIN store

\* the nodes the code treats as teams: allData[uid] && allData[uid].teamName
TeamNodes(store) == { k \in DOMAIN store : store[k].teamName # << >> }

\* the characters of a key in code-unit order: digits, upper case, lower case
codeOrder ==
  << "0","1","2","3","4","5","6","7","8","9",
     "A","B","C","D","E","F","G","H","I","J","K","L","M",
     "N","O","P","Q","R","S","T","U","V","W","X","Y","Z",
     "a","b","c","d","e","f","g","h","i","j","k","l","m",
     "n","o","p","q","r","s","t","u","v","w","x","y","z" >>

CodeOf(c) == CHOOSE i \in 1..Len(codeOrder) : codeOrder[i] = c

\* the order in which snapshot.val() lists the children: by key
RECURSIVE KeyLess(_, _)
KeyLess(a, b) ==
  IF a = << >> THEN b # << >>
  ELSE IF b = << >> THEN FALSE
  ELSE IF Head(a) # Head(b) THEN CodeOf(Head(a)) < CodeOf(Head(b))
  ELSE KeyLess(Tail(a), Tail(b))

\* for (const uid in allData) if (allData[uid] && allData[uid].teamName)
\*   teamsArray.push(allData[uid])
RECURSIVE TeamsArrayOf(_, _)
TeamsArrayOf(store, keys) ==
  IF keys = { } THEN << >>
  ELSE LET k == CHOOSE x \in keys : \A y \in keys : y = x \/ KeyLess(x, y)
       IN << store[k] >> \o TeamsArrayOf(store, keys \ { k })

TeamsArray(store) == TeamsArrayOf(store, TeamNodes(store))

\* the comparator: b.score - a.score, and on equal scores a.teamNumber - b.teamNumber
CompareTeams(a, b) ==
  IF b.score # a.score THEN b.score - a.score ELSE a.teamNumber - b.teamNumber

\* Array.prototype.sort is stable: an element goes behind those it does not precede
RECURSIVE InsertTeam(_, _)
InsertTeam(x, s) ==
  IF s = << >> THEN << x >>
  ELSE IF CompareTeams(Head(s), x) <= 0 THEN << Head(s) >> \o InsertTeam(x, Tail(s))
  ELSE << x >> \o s

RECURSIVE SortTeams(_)
SortTeams(arr) ==
  IF arr = << >> THEN << >>
  ELSE InsertTeam(arr[Len(arr)], SortTeams(SubSeq(arr, 1, Len(arr) - 1)))

\* variant: the team array is handed over as collected, without the sort
ScoreboardListUnsorted(store) == TeamsArray(store)

\* the list built from a root snapshot by getAllTeams and by the onValue
\* callback: [] when nothing exists, else the team nodes, sorted
ScoreboardList(store) ==
  IF DOMAIN store = { } THEN << >> ELSE SortTeams(TeamsArray(store))

\* the callback subscribeToScoreboard registers, and the function onValue returns
SnapshotCallback == "snapshotCallback"

UnsubscribeFn == "unsubscribe"

\* off(rootRef, 'value', callback): the registrations of that callback are removed
Off(registered, callback) == registered \ { callback }

\* variant: the name is looked up as a node key, as when the team name was the document id
NameTakenInByKey(store, teamName) == Exists(store, teamName)

\* isTeamNameTaken on a root snapshot: allData[uid].teamName === teamName
NameTakenIn(store, teamName) ==
  \E k \in DOMAIN store : store[k].teamName = teamName

\* isEmailTaken on a root snapshot: allData[uid].email === email
EmailTakenIn(store, email) ==
  \E k \in DOMAIN store : store[k].email = email

\* variant: the count itself is returned, without the + 1
NextTeamNumberInCountOnly(store) == Cardinality(TeamNodes(store))

\* getNextTeamNumber on a root snapshot: teamCount + 1
NextTeamNumberIn(store) == Cardinality(TeamNodes(store)) + 1

\* registerTeam: the team object written to the store
TeamData(uid, teamNumber, teamName, email, createdAt) ==
  [ uid |-> uid, teamNumber |-> teamNumber, teamName |-> teamName,
    player1 |-> Player1, player2 |-> Player2, email |-> email,
    phoneNumber |-> PhoneNumber, score |-> 0, createdAt |-> createdAt ]

\* variant: the node is keyed by the team name, as setDoc(doc(db, 'teams', teamName)) did
SetTeamByName(store, teamData) ==
  [ k \in DOMAIN store \cup { teamData.teamName } |->
      IF k = teamData.teamName THEN teamData ELSE store[k] ]

\* set(ref(db, uid), teamData): the node at key uid becomes teamData
SetTeam(store, teamData) ==
  [ k \in DOMAIN store \cup { teamData.uid } |->
      IF k = teamData.uid THEN teamData ELSE store[k] ]

\* variant: the result is clamped at zero
NewScoreClamped(currentScore, scoreIncrement) ==
  IF currentScore + scoreIncrement < 0 THEN 0 ELSE currentScore + scoreIncrement

\* updateScore: newScore = (currentTeam.score || 0) + scoreIncrement
NewScore(currentScore, scoreIncrement) == currentScore + scoreIncrement

\* variant: the score is written to every node under the root
UpdateScoreFieldAll(store, path, newScore) ==
  [ k \in DOMAIN store |-> [ store[k] EXCEPT !.score = newScore ] ]

\* update(teamRef, { score: newScore }): only the score child is written
UpdateScoreField(store, path, newScore) ==
  [ store EXCEPT ![path] = [ @ EXCEPT !.score = newScore ] ]

\* update-score.ts catch block: 'Team not found' -> 404, anything else -> 500
HttpStatus(result) ==
  CASE result = "ok" -> 200
    [] result \in { "MissingUid", "MissingIncrement", "UidNotString",
                    "IncrementNotNumber", "IncrementOutOfRange" } -> 400
    [] result = "TeamNotFound" -> 404
    [] OTHER -> 500

\* the positions of the character c in the string s
PositionsOf(s, c) == { i \in 1..Len(s) : s[i] = c }

\* /^[^\s@]+@[^\s@]+\.[^\s@]+$/.test(s): no space, exactly one @ with
\* something before it, and after it a dot with something on both sides
EmailRegexTest(s) ==
  /\ PositionsOf(s, " ") = { }
  /\ Cardinality(PositionsOf(s, "@")) = 1
  /\ LET at == CHOOSE i \in PositionsOf(s, "@") : TRUE
     IN /\ at > 1
        /\ \E d \in PositionsOf(s, ".") : d > at + 1 /\ d < Len(s)

\* the checks a registration passes before registerTeam is called.  POST
\* /api/register (part_003 45-77): required fields, then the email format of
\* the trimmed email.  The form (index.tsx 326-346): required fields after
\* trimming, the email format, then the length of the trimmed team name.
\* The players and the phone number are present and well-formed here.
ValidateRegistration(via, teamName, email) ==
  IF via = "api"
  THEN IF teamName = << >> \/ email = << >> THEN "MissingFields"
       ELSE IF ~EmailRegexTest(Trim(email)) THEN "InvalidEmail"
       ELSE "valid"
  ELSE IF Trim(teamName) = << >> \/ Trim(email) = << >> THEN "MissingFields"
       ELSE IF ~EmailRegexTest(email) THEN "InvalidEmail"
       ELSE IF Len(Trim(teamName)) < MinNameLen \/ Len(Trim(teamName)) > MaxNameLen
            THEN "NameLength"
       ELSE "valid"

\* POST /api/register (part_003 45-111): 400 from the handler's own checks,
\* 201 when registerTeam resolves; the catch block answers 500 whatever the error
RegisterHttpStatus(result) ==
  CASE result = "ok" -> 201
    [] result \in { "MissingFields", "InvalidEmail", "NameLength" } -> 400
    [] OTHER -> 500

\* GET /api/scoreboard (scoreboard.tsx 1067-1101): 200 with what getAllTeams
\* returned, 500 when it threw
ScoreboardHttpStatus(result) == IF result = "ok" THEN 200 ELSE 500

\* /api/team (team.ts 29-82): 400 without parameters, 404 without a team,
\* 200 with one, 500 from the catch block
TeamHttpStatus(result) ==
  CASE result = "ok" -> 200
    [] result = "MissingParams" -> 400
    [] result = "TeamNotFound" -> 404
    [] OTHER -> 500

\* JavaScript truthiness of a request value: !uid
Falsy(x) ==
  \/ x.t = "undefined"
  \/ x.t = "string" /\ x.v = << >>
  \/ x.t = "number" /\ x.v = 0

\* variant: the two bounds themselves are rejected
ValidateUpdateExclusive(uid, scoreIncrement) ==
  IF Falsy(uid) THEN "MissingUid"
  ELSE IF scoreIncrement.t = "undefined" THEN "MissingIncrement"
  ELSE IF uid.t # "string" THEN "UidNotString"
  ELSE IF scoreIncrement.t # "number" THEN "IncrementNotNumber"
  ELSE IF scoreIncrement.v <= -MaxIncrement * ScoreUnit
          \/ scoreIncrement.v >= MaxIncrement * ScoreUnit
       THEN "IncrementOutOfRange"
  ELSE "valid"

\* update-score.ts 36-72: the validation error of a request body, or "valid"
ValidateUpdate(uid, scoreIncrement) ==
  IF Falsy(uid) THEN "MissingUid"
  ELSE IF scoreIncrement.t = "undefined" THEN "MissingIncrement"
  ELSE IF uid.t # "string" THEN "UidNotString"
  ELSE IF scoreIncrement.t # "number" THEN "IncrementNotNumber"
  ELSE IF scoreIncrement.v < -MaxIncrement * ScoreUnit
          \/ scoreIncrement.v > MaxIncrement * ScoreUnit
       THEN "IncrementOutOfRange"
  ELSE "valid"

(* ---------------- state ---------------- *)

VARIABLES
  db,        \* the Realtime Database root: key -> team node (scores in halves)
  authed,    \* auth.currentUser is set
  now,       \* Date.now(), a logical clock
  proc,      \* per request: its position and locals
  calls,     \* number of calls started
  sumInc,    \* history: per key, sum of the increments of successful updates since the node was set
  regSeq,    \* history: teamNumbers of the successful registrations, in order
  anyFault,  \* history: some authentication or store operation failed
  lost,      \* history: some persisted node was replaced
  listeners, \* the 'value' callbacks registered on the root reference
  feed,      \* the value events raised for the listener and not yet dispatched
  sub,       \* the caller of subscribeToScoreboard: the function it was given, and whether it called it (0, 1, or 2 and more times)
  delivered, \* history: the last invocation of the scoreboard callback
  otpStore,  \* otp.ts: lower-cased email -> { otp, expires, email }
  timers,    \* the cleanup timers scheduled by storeOTP and not yet run
  clock,     \* Date.now() as read by otp.ts, in milliseconds
  issued,    \* history: per lower-cased email, the OTP of the last storeOTP not yet verified
  used,      \* history: the lower-cased emails whose OTP was verified and not stored again
  verified,  \* history: the last verifyOTP call
  page       \* scoreboard.tsx: the state of the mounted Scoreboard component

\* the state of the scoreboard subscription
boardVars == << listeners, feed, sub, delivered >>

\* the state of the OTP module
otpVars == << otpStore, timers, clock, issued, used, verified >>

vars == << db, authed, now, proc, calls, sumInc, regSeq, anyFault, lost,
          listeners, feed, sub, delivered,
          otpStore, timers, clock, issued, used, verified, page >>

Procs == 1..NumProcs

NoBody == [ uid |-> Undefined, scoreIncrement |-> Undefined ]

IdleProc ==
  [ pc |-> "idle", op |-> "none", body |-> NoBody,
    teamName |-> << >>, email |-> << >>, uid |-> << >>, inc |-> 0,
    nameTaken |-> "pending", emailTaken |-> "pending",
    teamNumber |-> 0, cur |-> 0, result |-> "none", ret |-> << >>,
    fault |-> FALSE, checkFault |-> FALSE, countFault |-> FALSE, dupName |-> FALSE, dupEmail |-> FALSE ]

\* no value event is waiting and none was raised
NoFeed == [ queue |-> << >>, sent |-> 0 ]

\* the scoreboard callback has not been invoked
NoDelivery ==
  [ count |-> 0, ver |-> 0, list |-> << >>, snap |-> << >>,
    op |-> "none", key |-> << >>, error |-> FALSE, afterCancel |-> FALSE,
    snapshots |-> 0 ]

\* scoreboard.tsx 11-15: the useState initial values
InitialPage ==
  [ teams |-> << >>, isLoading |-> TRUE, error |-> "", connectionStatus |-> "connecting" ]

\* scoreboard.tsx 36-55: the callback the page gives to subscribeToScoreboard
PageCallback(pg, updatedTeams) ==
  [ teams |-> updatedTeams, isLoading |-> FALSE, error |-> "",
    connectionStatus |-> "connected" ]

\* variant: a new event replaces the events still waiting
NotifyLatestOnly(f, store, op, key) ==
  IF listeners = { } THEN f
  ELSE [ queue |-> << [ ver |-> f.sent + 1, store |-> store, op |-> op, key |-> key ] >>,
         sent |-> f.sent + 1 ]

\* onValue(rootRef, ...): while a listener is registered on the root, the
\* database raises one value event, carrying the new root snapshot, per write
\* (op and key record which call wrote which node)
Notify(f, store, op, key) ==
  IF listeners = { } THEN f
  ELSE [ queue |-> Append(f.queue, [ ver |-> f.sent + 1, store |-> store,
                                     op |-> op, key |-> key ]),
         sent |-> f.sent + 1 ]

\* verifyOTP has not been called
NoVerify ==
  [ count |-> 0, email |-> << >>, result |-> FALSE, entitled |-> FALSE, afterUse |-> FALSE,
    expired |-> FALSE, timerPending |-> FALSE ]

Init ==
  /\ db = << >>
  /\ authed = FALSE
  /\ now = 1
  /\ proc = [ p \in Procs |-> IdleProc ]
  /\ calls = 0
  /\ sumInc = << >>
  /\ regSeq = << >>
  /\ anyFault = FALSE
  /\ lost = FALSE
  /\ listeners = { }
  /\ feed = NoFeed
  /\ sub = [ handle |-> "none", cancels |-> 0 ]
  /\ delivered = NoDelivery
  /\ otpStore = << >>
  /\ timers = { }
  /\ clock = 0
  /\ issued = << >>
  /\ used = { }
  /\ verified = NoVerify
  /\ page = InitialPage

\* some persisted record carries this team name / this email
NamePersisted(teamName) == \E k \in DOMAIN db : db[k].teamName = teamName

EmailPersisted(email) == \E k \in DOMAIN db : db[k].email = email

\* a call ends: it resolves or rejects with its result
Finish(p, rec, result) ==
  proc' = [ proc EXCEPT ![p] = [ rec EXCEPT !.pc = "done", !.result = result ] ]

\* a new call takes the lowest free request slot (the slots are interchangeable)
CanStart(p) ==
  /\ proc[p].pc = "idle"
  /\ \A q \in Procs : q < p => proc[q].pc # "idle"
  /\ calls < MaxCalls

\* ensureAuth (firestore.ts 526-535): signs in when there is no current user;
\* signInOk is the outcome of signInAnonymously
EnsureAuthOk(signInOk) == authed \/ signInOk

(* ---------------- registerTeam (firestore.ts 625-677) ---------------- *)

\* registerTeam is entered: await ensureAuth(), then both checks are started
StartRegister(p, teamName, email, signInOk) ==
  /\ CanStart(p)
  /\ calls' = calls + 1
  /\ LET rec == [ IdleProc EXCEPT
                    !.op = "registerTeam", !.teamName = teamName, !.email = email,
                    !.dupName = NamePersisted(teamName),
                    !.dupEmail = EmailPersisted(email),
                    !.fault = ~EnsureAuthOk(signInOk) ]
     IN IF EnsureAuthOk(signInOk)
        THEN /\ authed' = TRUE
             /\ proc' = [ proc EXCEPT ![p] = [ rec EXCEPT !.pc = "rt_checks" ] ]
        ELSE /\ authed' = authed
             /\ Finish(p, rec, "AuthRequired")
  /\ anyFault' = (anyFault \/ ~EnsureAuthOk(signInOk))
  /\ UNCHANGED << db, now, sumInc, regSeq, lost >>
  /\ UNCHANGED boardVars
  /\ UNCHANGED otpVars
  /\ UNCHANGED page

\* a registration arrives through a route: its checks, then registerTeam with
\* the trimmed fields (part_003 80-86, index.tsx 349-355), which awaits
\* ensureAuth() and starts both uniqueness checks
SubmitRegistration(p, via, teamName, email, signInOk) ==
  /\ CanStart(p)
  /\ calls' = calls + 1
  /\ LET verdict == ValidateRegistration(via, teamName, email)
         rec == [ IdleProc EXCEPT
                    !.op = "registerTeam",
                    !.body = [ via |-> via, teamName |-> teamName, email |-> email ] ]
         entered == [ rec EXCEPT
                        !.teamName = Trim(teamName), !.email = Trim(email),
                        !.dupName = NamePersisted(Trim(teamName)),
                        !.dupEmail = EmailPersisted(Trim(email)) ]
     IN IF verdict # "valid"
        THEN /\ Finish(p, rec, verdict)
             /\ UNCHANGED << authed, anyFault >>
        ELSE IF EnsureAuthOk(signInOk)
        THEN /\ authed' = TRUE
             /\ proc' = [ proc EXCEPT ![p] = [ entered EXCEPT !.pc = "rt_checks" ] ]
             /\ UNCHANGED anyFault
        ELSE /\ Finish(p, [ entered EXCEPT !.fault = TRUE ], "AuthRequired")
             /\ anyFault' = TRUE
             /\ UNCHANGED authed
  /\ UNCHANGED << db, now, sumInc, regSeq, lost >>
  /\ UNCHANGED boardVars
  /\ UNCHANGED otpVars
  /\ UNCHANGED page

\* variant: the call goes on as soon as the name check has answered
AfterChecksNameOnly(p, rec, draw) ==
  IF rec.nameTaken = "pending"
  THEN proc' = [ proc EXCEPT ![p] = rec ]
  ELSE IF rec.nameTaken = "yes" THEN Finish(p, rec, "NameTaken")
  ELSE IF rec.emailTaken = "yes" THEN Finish(p, rec, "EmailTaken")
  ELSE proc' = [ proc EXCEPT ![p] =
                   [ rec EXCEPT !.pc = "rt_count", !.uid = generateUID(draw) ] ]

\* variant: the email answer is looked at before the name answer
AfterChecksEmailFirst(p, rec, draw) ==
  IF rec.nameTaken = "pending" \/ rec.emailTaken = "pending"
  THEN proc' = [ proc EXCEPT ![p] = rec ]
  ELSE IF rec.emailTaken = "yes" THEN Finish(p, rec, "EmailTaken")
  ELSE IF rec.nameTaken = "yes" THEN Finish(p, rec, "NameTaken")
  ELSE proc' = [ proc EXCEPT ![p] =
                   [ rec EXCEPT !.pc = "rt_count", !.uid = generateUID(draw) ] ]

\* Promise.all has resolved: the two throws, else generateUID()
AfterChecks(p, rec, draw) ==
  IF rec.nameTaken = "pending" \/ rec.emailTaken = "pending"
  THEN proc' = [ proc EXCEPT ![p] = rec ]
  ELSE IF rec.nameTaken = "yes" THEN Finish(p, rec, "NameTaken")
  ELSE IF rec.emailTaken = "yes" THEN Finish(p, rec, "EmailTaken")
  ELSE proc' = [ proc EXCEPT ![p] =
                   [ rec EXCEPT !.pc = "rt_count", !.uid = generateUID(draw) ] ]

\* isTeamNameTaken (540-562): get(rootRef); a failure is caught and answers true
CheckName(p, ok, draw) ==
  /\ proc[p].pc = "rt_checks"
  /\ proc[p].nameTaken = "pending"
  /\ LET taken == IF ok THEN NameTakenIn(db, proc[p].teamName) ELSE TRUE
         rec == [ proc[p] EXCEPT
                    !.nameTaken = IF taken THEN "yes" ELSE "no",
                    !.fault = @ \/ ~ok, !.checkFault = @ \/ ~ok ]
     IN AfterChecks(p, rec, draw)
  /\ anyFault' = (anyFault \/ ~ok)
  /\ UNCHANGED << db, authed, now, calls, sumInc, regSeq, lost >>
  /\ UNCHANGED boardVars
  /\ UNCHANGED otpVars
  /\ UNCHANGED page

\* isEmailTaken (567-589): get(rootRef); a failure is caught and answers true
CheckEmail(p, ok, draw) ==
  /\ proc[p].pc = "rt_checks"
  /\ proc[p].emailTaken = "pending"
  /\ LET taken == IF ok THEN EmailTakenIn(db, proc[p].email) ELSE TRUE
         rec == [ proc[p] EXCEPT
                    !.emailTaken = IF taken THEN "yes" ELSE "no",
                    !.fault = @ \/ ~ok, !.checkFault = @ \/ ~ok ]
     IN AfterChecks(p, rec, draw)
  /\ anyFault' = (anyFault \/ ~ok)
  /\ UNCHANGED << db, authed, now, calls, sumInc, regSeq, lost >>
  /\ UNCHANGED boardVars
  /\ UNCHANGED otpVars
  /\ UNCHANGED page

\* getNextTeamNumber (595-618): get(rootRef); a failure is caught and answers 1
CountTeams(p, ok) ==
  /\ proc[p].pc = "rt_count"
  /\ proc' = [ proc EXCEPT ![p] =
                 [ @ EXCEPT !.pc = "rt_set",
                            !.teamNumber = IF ok THEN NextTeamNumberIn(db) ELSE 1,
                            !.fault = @ \/ ~ok, !.countFault = ~ok ] ]
  /\ anyFault' = (anyFault \/ ~ok)
  /\ UNCHANGED << db, authed, now, calls, sumInc, regSeq, lost >>
  /\ UNCHANGED boardVars
  /\ UNCHANGED otpVars
  /\ UNCHANGED page

\* lines 652-669: teamData is built with Date.now() and set at ref(db, uid)
WriteTeam(p, ok) ==
  /\ proc[p].pc = "rt_set"
  /\ now' = now + 1
  /\ LET rec == proc[p]
         teamData == TeamData(rec.uid, rec.teamNumber, rec.teamName, rec.email, now)
     IN IF ok
        THEN /\ db' = SetTeam(db, teamData)
             /\ feed' = Notify(feed, db', rec.op, rec.uid)
             /\ sumInc' = [ k \in DOMAIN sumInc \cup { rec.uid } |->
                              IF k = rec.uid THEN 0 ELSE sumInc[k] ]
             /\ regSeq' = Append(regSeq, rec.teamNumber)
             /\ lost' = (lost \/ Exists(db, rec.uid))
             /\ Finish(p, [ rec EXCEPT !.ret = teamData ], "ok")
        ELSE /\ Finish(p, [ rec EXCEPT !.fault = TRUE ], "StoreError")
             /\ UNCHANGED << db, sumInc, regSeq, lost, feed >>
  /\ anyFault' = (anyFault \/ ~ok)
  /\ UNCHANGED << authed, calls, listeners, sub, delivered >>
  /\ UNCHANGED otpVars
  /\ UNCHANGED page

(* ---------------- POST /api/update-score and updateScore ---------------- *)

\* update-score.ts 32-75: the body is validated, then updateScore(uid.trim(),
\* scoreIncrement) is entered and awaits ensureAuth()
StartUpdateScore(p, uid, scoreIncrement, signInOk) ==
  /\ CanStart(p)
  /\ calls' = calls + 1
  /\ LET verdict == ValidateUpdate(uid, scoreIncrement)
         rec == [ IdleProc EXCEPT
                    !.op = "updateScore",
                    !.body = [ uid |-> uid, scoreIncrement |-> scoreIncrement ] ]
     IN IF verdict # "valid"
        THEN /\ Finish(p, rec, verdict)
             /\ UNCHANGED << authed, anyFault >>
        ELSE IF EnsureAuthOk(signInOk)
        THEN /\ authed' = TRUE
             /\ proc' = [ proc EXCEPT ![p] =
                            [ rec EXCEPT !.pc = "us_get", !.uid = Trim(uid.v),
                                         !.inc = scoreIncrement.v ] ]
             /\ UNCHANGED anyFault
        ELSE /\ Finish(p, [ rec EXCEPT !.fault = TRUE ], "AuthRequired")
             /\ anyFault' = TRUE
             /\ UNCHANGED authed
  /\ UNCHANGED << db, now, sumInc, regSeq, lost >>
  /\ UNCHANGED boardVars
  /\ UNCHANGED otpVars
  /\ UNCHANGED page

\* updateScore 686-693: ref(db, uid), get(teamRef), snapshot.exists()
ReadTeam(p, ok) ==
  /\ proc[p].pc = "us_get"
  /\ LET rec == proc[p]
     IN IF ~IsValidPath(rec.uid) THEN
          /\ Finish(p, rec, "InvalidPath")
          /\ UNCHANGED anyFault
        ELSE IF ~ok THEN
          /\ Finish(p, [ rec EXCEPT !.fault = TRUE ], "StoreError")
          /\ anyFault' = TRUE
        ELSE IF ~Exists(db, rec.uid) THEN
          /\ Finish(p, rec, "TeamNotFound")
          /\ UNCHANGED anyFault
        ELSE
          /\ proc' = [ proc EXCEPT ![p] =
                         [ rec EXCEPT !.pc = "us_update", !.cur = db[rec.uid].score ] ]
          /\ UNCHANGED anyFault
  /\ UNCHANGED << db, authed, now, calls, sumInc, regSeq, lost >>
  /\ UNCHANGED boardVars
  /\ UNCHANGED otpVars
  /\ UNCHANGED page

\* updateScore 694-701: update(teamRef, { score: newScore }); return true
WriteScore(p, ok) ==
  /\ proc[p].pc = "us_update"
  /\ LET rec == proc[p]
     IN IF ok
        THEN /\ db' = UpdateScoreField(db, rec.uid, NewScore(rec.cur, rec.inc))
             /\ feed' = Notify(feed, db', rec.op, rec.uid)
             /\ sumInc' = [ sumInc EXCEPT ![rec.uid] = @ + rec.inc ]
             /\ Finish(p, rec, "ok")
             /\ UNCHANGED anyFault
        ELSE /\ Finish(p, [ rec EXCEPT !.fault = TRUE ], "StoreError")
             /\ anyFault' = TRUE
             /\ UNCHANGED << db, sumInc, feed >>
  /\ UNCHANGED << authed, now, calls, regSeq, lost, listeners, sub, delivered >>
  /\ UNCHANGED otpVars
  /\ UNCHANGED page

(* ---------------- updateScoreByTeamName (firestore.ts 712-751) ---------------- *)

StartUpdateByName(p, teamName, scoreIncrement, signInOk) ==
  /\ CanStart(p)
  /\ calls' = calls + 1
  /\ LET rec == [ IdleProc EXCEPT
                    !.op = "updateScoreByTeamName", !.teamName = teamName,
                    !.inc = Num(scoreIncrement).v ]
     IN IF EnsureAuthOk(signInOk)
        THEN /\ authed' = TRUE
             /\ proc' = [ proc EXCEPT ![p] = [ rec EXCEPT !.pc = "ubn_get" ] ]
             /\ UNCHANGED anyFault
        ELSE /\ Finish(p, [ rec EXCEPT !.fault = TRUE ], "AuthRequired")
             /\ anyFault' = TRUE
             /\ UNCHANGED authed
  /\ UNCHANGED << db, now, sumInc, regSeq, lost >>
  /\ UNCHANGED boardVars
  /\ UNCHANGED otpVars
  /\ UNCHANGED page

\* lines 715-737: get(rootRef), the for-in search for the team name, and the
\* score of the node found; targetUID is a key whose node has the name
FindTeamByName(p, ok, targetUID) ==
  /\ proc[p].pc = "ubn_get"
  /\ LET rec == proc[p]
         matches == { k \in DOMAIN db : db[k].teamName = rec.teamName }
     IN IF ~ok THEN
          /\ Finish(p, [ rec EXCEPT !.fault = TRUE ], "StoreError")
          /\ anyFault' = TRUE
        ELSE IF DOMAIN db = { } THEN
          /\ Finish(p, rec, "NoTeams")
          /\ UNCHANGED anyFault
        ELSE IF matches = { } THEN
          /\ Finish(p, rec, "TeamNotFound")
          /\ UNCHANGED anyFault
        ELSE
          /\ targetUID \in matches
          /\ proc' = [ proc EXCEPT ![p] =
                         [ rec EXCEPT !.pc = "ubn_update", !.uid = targetUID,
                                      !.cur = db[targetUID].score ] ]
          /\ UNCHANGED anyFault
  /\ UNCHANGED << db, authed, now, calls, sumInc, regSeq, lost >>
  /\ UNCHANGED boardVars
  /\ UNCHANGED otpVars
  /\ UNCHANGED page

\* lines 738-746: update(ref(db, targetUID), { score: newScore }); return true
WriteScoreByName(p, ok) ==
  /\ proc[p].pc = "ubn_update"
  /\ LET rec == proc[p]
     IN IF ok
        THEN /\ db' = UpdateScoreField(db, rec.uid, NewScore(rec.cur, rec.inc))
             /\ feed' = Notify(feed, db', rec.op, rec.uid)
             /\ sumInc' = [ sumInc EXCEPT ![rec.uid] = @ + rec.inc ]
             /\ Finish(p, rec, "ok")
             /\ UNCHANGED anyFault
        ELSE /\ Finish(p, [ rec EXCEPT !.fault = TRUE ], "StoreError")
             /\ anyFault' = TRUE
             /\ UNCHANGED << db, sumInc, feed >>
  /\ UNCHANGED << authed, now, calls, regSeq, lost, listeners, sub, delivered >>
  /\ UNCHANGED otpVars
  /\ UNCHANGED page

\* the caller has received the result; the request slot is free again
Return(p) ==
  /\ proc[p].pc = "done"
  /\ proc' = [ proc EXCEPT ![p] = IdleProc ]
  /\ UNCHANGED << db, authed, now, calls, sumInc, regSeq, anyFault, lost >>
  /\ UNCHANGED boardVars
  /\ UNCHANGED otpVars
  /\ UNCHANGED page

(* ---------------- GET /api/scoreboard and getAllTeams (firestore.ts 756-789) ---------------- *)

\* the handler calls getAllTeams(), which awaits ensureAuth() inside its try
\* block: a failure is caught and [] is returned
StartScoreboard(p, signInOk) ==
  /\ CanStart(p)
  /\ calls' = calls + 1
  /\ LET rec == [ IdleProc EXCEPT !.op = "getAllTeams" ]
     IN IF EnsureAuthOk(signInOk)
        THEN /\ authed' = TRUE
             /\ proc' = [ proc EXCEPT ![p] = [ rec EXCEPT !.pc = "ga_get" ] ]
             /\ UNCHANGED anyFault
        ELSE /\ Finish(p, [ rec EXCEPT !.fault = TRUE, !.ret = << >> ], "ok")
             /\ anyFault' = TRUE
             /\ UNCHANGED authed
  /\ UNCHANGED << db, now, sumInc, regSeq, lost >>
  /\ UNCHANGED boardVars
  /\ UNCHANGED otpVars
  /\ UNCHANGED page

\* lines 759-788: get(rootRef), the filter and the sort; a failure is caught
\* and [] is returned, so the handler answers 200 either way
ReadAllTeams(p, ok) ==
  /\ proc[p].pc = "ga_get"
  /\ LET rec == proc[p]
     IN IF ok
        THEN /\ Finish(p, [ rec EXCEPT !.ret = ScoreboardList(db) ], "ok")
             /\ UNCHANGED anyFault
        ELSE /\ Finish(p, [ rec EXCEPT !.fault = TRUE, !.ret = << >> ], "ok")
             /\ anyFault' = TRUE
  /\ UNCHANGED << db, authed, now, calls, sumInc, regSeq, lost >>
  /\ UNCHANGED boardVars
  /\ UNCHANGED otpVars
  /\ UNCHANGED page

(* ---------------- GET and POST /api/team (team.ts 21-148) ---------------- *)

\* the branch the handler takes: GET tests uid && typeof uid === 'string',
\* then teamName likewise; POST tests only uid, then teamName
TeamBranch(method, uid, teamName) ==
  IF ~Falsy(uid) /\ (method = "POST" \/ uid.t = "string") THEN "byUid"
  ELSE IF ~Falsy(teamName) /\ (method = "POST" \/ teamName.t = "string") THEN "byName"
  ELSE "none"

\* lines 25-42 and 82-100: the parameter check, the branch, and ref(db, uid)
StartTeam(p, method, uid, teamName) ==
  /\ CanStart(p)
  /\ calls' = calls + 1
  /\ LET rec == [ IdleProc EXCEPT
                    !.op = "team",
                    !.body = [ method |-> method, uid |-> uid, teamName |-> teamName ] ]
         branch == TeamBranch(method, uid, teamName)
     IN IF Falsy(uid) /\ Falsy(teamName) THEN Finish(p, rec, "MissingParams")
        ELSE IF branch = "byUid" THEN
          IF uid.t = "string" /\ IsValidPath(uid.v)
          THEN proc' = [ proc EXCEPT ![p] = [ rec EXCEPT !.pc = "tm_get", !.uid = uid.v ] ]
          ELSE Finish(p, rec, "InvalidPath")
        ELSE IF branch = "byName" THEN
          proc' = [ proc EXCEPT ![p] =
                      [ rec EXCEPT !.pc = "tm_scan",
                                   !.teamName = IF teamName.t = "string"
                                                THEN teamName.v ELSE << >> ] ]
        ELSE Finish(p, rec, "TeamNotFound")
  /\ UNCHANGED << db, authed, now, sumInc, regSeq, anyFault, lost >>
  /\ UNCHANGED boardVars
  /\ UNCHANGED otpVars
  /\ UNCHANGED page

\* lines 41-47: get(teamRef); team = teamSnapshot.val() when it exists
ReadTeamNode(p, ok) ==
  /\ proc[p].pc = "tm_get"
  /\ LET rec == proc[p]
     IN IF ~ok THEN
          /\ Finish(p, [ rec EXCEPT !.fault = TRUE ], "StoreError")
          /\ anyFault' = TRUE
        ELSE IF Exists(db, rec.uid) THEN
          /\ Finish(p, [ rec EXCEPT !.ret = db[rec.uid] ], "ok")
          /\ UNCHANGED anyFault
        ELSE
          /\ Finish(p, rec, "TeamNotFound")
          /\ UNCHANGED anyFault
  /\ UNCHANGED << db, authed, now, calls, sumInc, regSeq, lost >>
  /\ UNCHANGED boardVars
  /\ UNCHANGED otpVars
  /\ UNCHANGED page

\* the first node, in key order, whose teamName is the one asked for
FirstMatch(store, teamName) ==
  LET matches == { k \in DOMAIN store : store[k].teamName = teamName }
  IN CHOOSE k \in matches : \A o \in matches : o = k \/ KeyLess(k, o)

\* lines 48-63: get(rootRef) and the for-in search that stops at the first match
ScanTeams(p, ok) ==
  /\ proc[p].pc = "tm_scan"
  /\ LET rec == proc[p]
     IN IF ~ok THEN
          /\ Finish(p, [ rec EXCEPT !.fault = TRUE ], "StoreError")
          /\ anyFault' = TRUE
        ELSE IF \E k \in DOMAIN db : db[k].teamName = rec.teamName THEN
          /\ Finish(p, [ rec EXCEPT !.ret = db[FirstMatch(db, rec.teamName)] ], "ok")
          /\ UNCHANGED anyFault
        ELSE
          /\ Finish(p, rec, "TeamNotFound")
          /\ UNCHANGED anyFault
  /\ UNCHANGED << db, authed, now, calls, sumInc, regSeq, lost >>
  /\ UNCHANGED boardVars
  /\ UNCHANGED otpVars
  /\ UNCHANGED page

(* ---------------- subscribeToScoreboard (firestore.ts 795-850) ---------------- *)

\* lines 796-849: onValue registers the snapshot callback and raises a first
\* event with the current root; the caller gets the function that calls off().
\* When setting up throws, the caller gets a function that does nothing.
Subscribe(ok) ==
  /\ sub.handle = "none"
  /\ IF ok
     THEN /\ listeners' = listeners \cup { SnapshotCallback }
          /\ feed' = [ queue |-> Append(feed.queue,
                                        [ ver |-> feed.sent + 1, store |-> db,
                                          op |-> "subscribe", key |-> << >> ]),
                       sent |-> feed.sent + 1 ]
          /\ sub' = [ sub EXCEPT !.handle = "off" ]
     ELSE /\ sub' = [ sub EXCEPT !.handle = "dummy" ]
          /\ UNCHANGED << listeners, feed >>
  /\ UNCHANGED << db, authed, now, proc, calls, sumInc, regSeq, anyFault, lost, delivered >>
  /\ UNCHANGED otpVars
  /\ UNCHANGED page

\* lines 841-844: the returned function runs off(rootRef, 'value', unsubscribe),
\* where unsubscribe is what onValue returned; lines 845-849: the dummy function
Cancel ==
  /\ sub.handle # "none"
  /\ sub' = [ sub EXCEPT !.cancels = IF @ < 2 THEN @ + 1 ELSE @ ]
  /\ listeners' = IF sub.handle = "off" THEN Off(listeners, UnsubscribeFn) ELSE listeners
  /\ feed' = IF listeners' = { } THEN [ feed EXCEPT !.queue = << >> ] ELSE feed
  /\ UNCHANGED << db, authed, now, proc, calls, sumInc, regSeq, anyFault, lost, delivered >>
  /\ UNCHANGED otpVars
  /\ UNCHANGED page

\* lines 802-832: a value event reaches the registered snapshot callback, which
\* builds the sorted list and passes it to callback; the page's callback
\* (scoreboard.tsx 36-55) sets its state while the component is mounted
Deliver ==
  /\ SnapshotCallback \in listeners
  /\ feed.queue # << >>
  /\ LET ev == Head(feed.queue)
     IN /\ delivered' = [ count |-> delivered.count + 1, ver |-> ev.ver,
                          list |-> ScoreboardList(ev.store), snap |-> ev.store,
                          op |-> ev.op, key |-> ev.key,
                          error |-> FALSE, afterCancel |-> sub.cancels > 0,
                          snapshots |-> delivered.snapshots + 1 ]
        /\ page' = IF sub.cancels = 0
                   THEN PageCallback(page, ScoreboardList(ev.store))
                   ELSE page
  /\ feed' = [ feed EXCEPT !.queue = Tail(@) ]
  /\ UNCHANGED << db, authed, now, proc, calls, sumInc, regSeq, anyFault, lost,
                  listeners, sub >>
  /\ UNCHANGED otpVars

\* lines 833-837: the database cancels the listener with an error; the error
\* callback runs callback([]) and nothing more is raised for the listener
ListenerError ==
  /\ SnapshotCallback \in listeners
  /\ delivered' = [ count |-> delivered.count + 1, ver |-> 0,
                    list |-> << >>, snap |-> db, op |-> "error", key |-> << >>,
                    error |-> TRUE, afterCancel |-> sub.cancels > 0,
                    snapshots |-> delivered.snapshots ]
  /\ page' = IF sub.cancels = 0 THEN PageCallback(page, << >>) ELSE page
  /\ listeners' = { }
  /\ feed' = [ feed EXCEPT !.queue = << >> ]
  /\ UNCHANGED << db, authed, now, proc, calls, sumInc, regSeq, anyFault, lost, sub >>
  /\ UNCHANGED otpVars

(* ---------------- storeOTP and verifyOTP (otp.ts 15-52) ---------------- *)

\* everything outside the OTP module
appVars ==
  << db, authed, now, proc, sumInc, regSeq, anyFault, lost,
     listeners, feed, sub, delivered, page >>

\* storeOTP (20-28): the entry is set under the lower-cased email and a
\* timer is scheduled that deletes whatever is under that key when it runs
StoreOTP(email, otp, expirationMinutes) ==
  /\ calls < MaxCalls
  /\ calls' = calls + 1
  /\ LET key == ToLowerCase(email)
         expires == clock + expirationMinutes * MsPerMinute
     IN /\ otpStore' = SetKey(otpStore, key, [ otp |-> otp, expires |-> expires, email |-> email ])
        /\ timers' = timers \cup { [ key |-> key, due |-> expires, id |-> calls ] }
        /\ issued' = SetKey(issued, key, [ otp |-> otp, expires |-> expires ])
        /\ used' = used \ { key }
  /\ UNCHANGED << clock, verified >>
  /\ UNCHANGED appVars

\* the callback of a timer runs, at its due time or later (25-27)
TimerFires ==
  /\ \E t \in timers :
       /\ clock >= t.due
       /\ otpStore' = DeleteKey(otpStore, t.key)
       /\ timers' = timers \ { t }
  /\ UNCHANGED << clock, issued, used, verified, calls >>
  /\ UNCHANGED appVars

\* verifyOTP (33-52)
VerifyOTP(email, providedOTP) ==
  /\ calls < MaxCalls
  /\ calls' = calls + 1
  /\ LET key == ToLowerCase(email)
         out == VerifyIn(otpStore, clock, email, providedOTP)
     IN /\ otpStore' = out.store
        /\ verified' =
             [ count |-> verified.count + 1,
               email |-> email,
               result |-> out.result,
               entitled |-> /\ key \in DOMAIN issued
                            /\ issued[key].otp = providedOTP
                            /\ clock < issued[key].expires,
               afterUse |-> key \in used,
               expired |-> key \in DOMAIN otpStore /\ clock > otpStore[key].expires,
               timerPending |-> \E t \in timers : t.key = key ]
        /\ issued' = IF out.result THEN DeleteKey(issued, key) ELSE issued
        /\ used' = IF out.result THEN used \cup { key } ELSE used
  /\ UNCHANGED << timers, clock >>
  /\ UNCHANGED appVars

\* a minute passes
Tick ==
  /\ clock < MaxTicks * MsPerMinute
  /\ clock' = clock + MsPerMinute
  /\ UNCHANGED << otpStore, timers, issued, used, verified, calls >>
  /\ UNCHANGED appVars

(* ---------------- specifications ---------------- *)

\* every key a search can be asked to try
AllUids == { generateUID(d) : d \in RandomDraws }

\* the steps of a registerTeam call
RegisterStep(p) ==
  \/ \E n \in TeamNames, e \in Emails, a \in BOOLEAN : StartRegister(p, n, e, a)
  \/ \E ok \in BOOLEAN, d \in RandomDraws : CheckName(p, ok, d)
  \/ \E ok \in BOOLEAN, d \in RandomDraws : CheckEmail(p, ok, d)
  \/ \E ok \in BOOLEAN : CountTeams(p, ok)
  \/ \E ok \in BOOLEAN : WriteTeam(p, ok)

Step(p) ==
  \/ RegisterStep(p)
  \/ \E u \in BodyUids, i \in BodyIncrements, a \in BOOLEAN : StartUpdateScore(p, u, i, a)
  \/ \E ok \in BOOLEAN : ReadTeam(p, ok)
  \/ \E ok \in BOOLEAN : WriteScore(p, ok)
  \/ \E n \in TeamNames, i \in LibIncrements, a \in BOOLEAN : StartUpdateByName(p, n, i, a)
  \/ \E ok \in BOOLEAN, k \in AllUids : FindTeamByName(p, ok, k)
  \/ \E ok \in BOOLEAN : WriteScoreByName(p, ok)
  \/ Return(p)

\* requests interleave at every await
Next == \E p \in Procs : Step(p)

Spec == Init /\ [][Next]_vars

\* one call at a time: a single request slot, so a call starts only after the
\* previous one has returned
NextSeq == Step(1)

SeqSpec == Init /\ [][NextSeq]_vars

\* one call at a time: registrations, and POST /api/update-score requests whose
\* increments sit at and around the bounds of the accepted range
NextRange ==
  \/ RegisterStep(1)
  \/ \E u \in RangeUids, i \in RangeIncrements, a \in BOOLEAN : StartUpdateScore(1, u, i, a)
  \/ \E ok \in BOOLEAN : ReadTeam(1, ok)
  \/ \E ok \in BOOLEAN : WriteScore(1, ok)
  \/ Return(1)

RangeSpec == Init /\ [][NextRange]_vars

\* one call at a time: registrations and score updates, and the requests that
\* read the store: GET /api/scoreboard and GET or POST /api/team
NextRead ==
  \/ RegisterStep(1)
  \/ \E i \in LibIncrements, a \in BOOLEAN :
       StartUpdateScore(1, Str(<<"A","A","A","A","A">>), Num(i), a)
  \/ \E ok \in BOOLEAN : ReadTeam(1, ok)
  \/ \E ok \in BOOLEAN : WriteScore(1, ok)
  \/ \E a \in BOOLEAN : StartScoreboard(1, a)
  \/ \E ok \in BOOLEAN : ReadAllTeams(1, ok)
  \/ \E m \in Methods, u \in TeamUids, n \in TeamNameParams : StartTeam(1, m, u, n)
  \/ \E ok \in BOOLEAN : ReadTeamNode(1, ok)
  \/ \E ok \in BOOLEAN : ScanTeams(1, ok)
  \/ Return(1)

ReadSpec == Init /\ [][NextRead]_vars

\* one registration at a time, arriving through POST /api/register or
\* through the form
NextSubmit ==
  \/ \E v \in Routes, n \in SubmittedNames, e \in SubmittedEmails, a \in BOOLEAN :
       SubmitRegistration(1, v, n, e, a)
  \/ \E ok \in BOOLEAN, d \in RandomDraws : CheckName(1, ok, d)
  \/ \E ok \in BOOLEAN, d \in RandomDraws : CheckEmail(1, ok, d)
  \/ \E ok \in BOOLEAN : CountTeams(1, ok)
  \/ \E ok \in BOOLEAN : WriteTeam(1, ok)
  \/ Return(1)

SubmitSpec == Init /\ [][NextSubmit]_vars

\* the OTP module on its own: calls of storeOTP and verifyOTP, the cleanup
\* timers, and the passing of time
NextOtp ==
  \/ \E e \in OtpEmails, o \in Otps, m \in ExpirationMinutes : StoreOTP(e, o, m)
  \/ TimerFires
  \/ \E e \in OtpEmails, o \in Otps : VerifyOTP(e, o)
  \/ Tick

OtpSpec == Init /\ [][NextOtp]_vars

\* increments of the score updates a scoreboard watches
BoardIncrements == { Num(2), Num(-3) }

\* the one team a scoreboard watches in BoardSpec
BoardTeamName == <<"A","b">>

BoardEmail == <<"a","@","x",".","y">>

BoardDraw == <<0, 0, 0, 0, 0>>

\* a scoreboard subscription next to registrations and score updates of one
\* team, which run one at a time and whose sign-in and store operations
\* succeed (the failure studied here is the listener's)
NextBoard ==
  \/ StartRegister(1, BoardTeamName, BoardEmail, TRUE)
  \/ CheckName(1, TRUE, BoardDraw)
  \/ CheckEmail(1, TRUE, BoardDraw)
  \/ CountTeams(1, TRUE)
  \/ WriteTeam(1, TRUE)
  \/ \E i \in BoardIncrements :
       StartUpdateScore(1, Str(<<"A","A","A","A","A">>), i, TRUE)
  \/ ReadTeam(1, TRUE)
  \/ WriteScore(1, TRUE)
  \/ Return(1)
  \/ \E ok \in BOOLEAN : Subscribe(ok)
  \/ Cancel
  \/ Deliver
  \/ ListenerError

\* the client dispatches a raised event to a registered listener: an event
\* that stays deliverable is eventually delivered
BoardSpec == Init /\ [][NextBoard]_vars /\ WF_vars(Deliver)

(* ---------------- properties ---------------- *)

UpdatePcs == { "us_get", "us_update", "ubn_get", "ubn_update" }

NoUpdateInFlight == \A p \in Procs : proc[p].pc \notin UpdatePcs

\* C1: for any interleaving of concurrent updateScore calls on one uid, once
\* all of them have returned, the record's score is its score before the calls
\* plus the sum of the increments of the successful ones (no increment is lost).
\* Stated for records that were never replaced.
C1_NoLostIncrement ==
  (NoUpdateInFlight /\ ~lost) =>
     \A k \in DOMAIN db : db[k].score = sumInc[k]

\* C2: in every reachable state, under any interleaving of concurrent
\* registerTeam calls, no two persisted records have the same teamName.
C2_TeamNameUnique ==
  \A k1, k2 \in DOMAIN db : k1 # k2 => db[k1].teamName # db[k2].teamName

\* C3: in every reachable state, under any interleaving of concurrent
\* registerTeam calls, no two persisted records have the same email.
C3_EmailUnique ==
  \A k1, k2 \in DOMAIN db : k1 # k2 => db[k1].email # db[k2].email

C4_Result ==
  \A p \in Procs :
    (proc[p].op = "registerTeam" /\ proc[p].pc = "done"
       /\ (proc[p].dupName \/ proc[p].dupEmail)) =>
      /\ proc[p].result # "ok"
      /\ (~proc[p].fault /\ proc[p].dupName) => proc[p].result = "NameTaken"
      /\ (~proc[p].fault /\ ~proc[p].dupName) => proc[p].result = "EmailTaken"

C4_Frame ==
  \A p \in Procs :
    (proc[p].op = "registerTeam" /\ (proc[p].dupName \/ proc[p].dupEmail)) =>
      db' = db

\* C4: with calls running one at a time, a registerTeam call whose teamName
\* (compared exactly) or email equals that of a record persisted when the call
\* starts never succeeds and never changes the persisted records; when its
\* authentication and store reads succeed it fails with the name-taken error
\* if the name is persisted, else with the email-taken error.
C4_DuplicateRejected == [] C4_Result /\ [][C4_Frame]_vars

\* C4 witness: with one record persisted, a later call with that record's
\* name, whose sign-in and reads succeeded, has ended with the name-taken error
C4_Witness ==
  \E p \in Procs :
    /\ proc[p].op = "registerTeam" /\ proc[p].pc = "done"
    /\ proc[p].dupName /\ ~proc[p].fault
    /\ proc[p].result = "NameTaken"
    /\ Cardinality(DOMAIN db) = 1

SameButScore(a, b) == [ a EXCEPT !.score = 0 ] = [ b EXCEPT !.score = 0 ]

\* C5: once a team record is persisted no later operation changes any of its
\* fields other than score, and none removes or replaces it, whatever uid
\* generateUID returns to a later registration.
C5_RecordsImmutable ==
  [][ \A k \in DOMAIN db : k \in DOMAIN db' /\ SameButScore(db[k], db'[k]) ]_vars

\* C6: in every reachable state no two persisted team records have the same
\* uid, whatever sequence of values generateUID returns across registrations
\* (a repeated uid included).
C6_UidUnique ==
  \A k1, k2 \in DOMAIN db : k1 # k2 => db[k1].uid # db[k2].uid

\* C6 witness: generateUID has returned the uid of an existing record and two
\* records are persisted
C6_Witness == lost /\ Cardinality(DOMAIN db) = 2

C8_TeamNumberUniqueMonotone ==
  (~anyFault /\ ~lost) =>
     \A k1, k2 \in DOMAIN db :
       k1 # k2 =>
         /\ db[k1].teamNumber # db[k2].teamNumber
         /\ db[k1].createdAt < db[k2].createdAt =>
              db[k1].teamNumber <= db[k2].teamNumber

\* C9: with calls running one at a time, after any sequence of successful
\* updateScore calls on a uid the record's score is its score at creation (0)
\* plus the sum of the increments: a repeated call adds again and the result
\* is not clamped.
C9_ScoreIsSum ==
  \A k \in DOMAIN db : db[k].score = sumInc[k]

\* C9 witness: the same negative increment was applied twice to a new record
C9_Witness ==
  \E k \in DOMAIN db : db[k].score = Num(-6).v /\ sumInc[k] = Num(-6).v

\* C10: POST /api/update-score with a valid increment and a uid that, after
\* trimming, is the identifier of no persisted record (an empty one included)
\* answers 404 team-not-found when authentication and the store succeed.
C10_UnknownUidIs404 ==
  \A p \in Procs :
    (/\ proc[p].op = "updateScore" /\ proc[p].pc = "done"
     /\ proc[p].body.uid.t = "string"
     /\ ValidateUpdate(proc[p].body.uid, proc[p].body.scoreIncrement) = "valid"
     /\ ~proc[p].fault
     /\ ~Exists(db, Trim(proc[p].body.uid.v)))
    => HttpStatus(proc[p].result) = 404

\* the increment of a request body is a number outside / inside the range
\* -1,000,000 .. 1,000,000
IncrementOutside(body) ==
  /\ body.scoreIncrement.t = "number"
  /\ (body.scoreIncrement.v < Num(-MaxIncrement).v
        \/ body.scoreIncrement.v > Num(MaxIncrement).v)

IncrementInside(body) ==
  /\ body.scoreIncrement.t = "number"
  /\ body.scoreIncrement.v >= Num(-MaxIncrement).v
  /\ body.scoreIncrement.v <= Num(MaxIncrement).v

ValidationErrors ==
  { "MissingUid", "MissingIncrement", "UidNotString", "IncrementNotNumber",
    "IncrementOutOfRange" }

C11_Result ==
  \A p \in Procs :
    proc[p].op = "updateScore" =>
      /\ IncrementOutside(proc[p].body) =>
            /\ proc[p].pc = "done"
            /\ proc[p].result \in ValidationErrors
            /\ HttpStatus(proc[p].result) = 400
      /\ (IncrementInside(proc[p].body) /\ proc[p].body.uid.t = "string"
            /\ proc[p].body.uid.v # << >>) =>
            proc[p].result \notin ValidationErrors

C11_Frame ==
  \A p \in Procs :
    (proc'[p].op = "updateScore" /\ IncrementOutside(proc'[p].body)) => db' = db

\* C11: POST /api/update-score with a numeric scoreIncrement outside
\* -1,000,000 .. 1,000,000 is answered 400 with a validation error by the
\* step that receives it, so updateScore is never entered and no record
\* changes; an increment inside the range (both bounds and 0 included), sent
\* with a non-empty string uid, gets no validation error.
C11_RangeValidated == [] C11_Result /\ [][C11_Frame]_vars

\* C11 witness: the upper bound itself was applied to a record, and a request
\* one beyond the bound has been rejected
C11_Witness ==
  /\ \E k \in DOMAIN db : db[k].score = Num(MaxIncrement).v
  /\ \E p \in Procs :
       /\ proc[p].op = "updateScore" /\ proc[p].pc = "done"
       /\ proc[p].body.scoreIncrement = Num(MaxIncrement + 1)
       /\ proc[p].result = "IncrementOutOfRange"

\* the letters A-Z and a-z and the digits 0-9
Alphanumeric ==
  { "A","B","C","D","E","F","G","H","I","J","K","L","M","N","O","P","Q","R",
    "S","T","U","V","W","X","Y","Z","a","b","c","d","e","f","g","h","i","j",
    "k","l","m","n","o","p","q","r","s","t","u","v","w","x","y","z","0","1",
    "2","3","4","5","6","7","8","9" }

C12_Step ==
  \A p \in Procs :
    (proc[p].pc = "rt_set" /\ proc'[p].pc = "done" /\ proc'[p].result = "ok") =>
      LET r == proc'[p].ret
      IN /\ r.score = 0
         /\ Len(r.uid) = 5
         /\ \A i \in 1..Len(r.uid) : r.uid[i] \in Alphanumeric
         /\ r.uid \in DOMAIN db' /\ db'[r.uid] = r
         /\ DOMAIN db' = DOMAIN db \cup { r.uid }
         /\ \A k \in DOMAIN db \ { r.uid } : db'[k] = db[k]

\* C12: the step in which a registerTeam call succeeds writes exactly one
\* record and leaves every other record as it was; the record written has
\* score 0 and a uid of exactly 5 characters, each of A-Z, a-z, 0-9, it is
\* stored under that uid, and it is the record the call returns.
C12_OneNewRecord == [][C12_Step]_vars

\* C12 witness: a registerTeam call has returned the record with uid "qK234",
\* which is persisted next to an earlier one
C12_Witness ==
  \E p \in Procs :
    /\ proc[p].op = "registerTeam" /\ proc[p].pc = "done" /\ proc[p].result = "ok"
    /\ proc[p].ret.uid = <<"q","K","2","3","4">>
    /\ db[proc[p].ret.uid] = proc[p].ret
    /\ Cardinality(DOMAIN db) = 2

\* C13: once the function returned by subscribeToScoreboard has been called,
\* no listener is registered on the root any more and the callback is not
\* invoked again.
C13_CancelDetaches ==
  sub.cancels > 0 => (listeners = { } /\ ~delivered.afterCancel)

\* list holds every record of store exactly once, by score descending and,
\* on equal scores, by teamNumber ascending
IsFullSortedList(list, store) ==
  /\ Len(list) = Cardinality(DOMAIN store)
  /\ \A k \in DOMAIN store : \E i \in 1..Len(list) : list[i] = store[k]
  /\ \A i, j \in 1..Len(list) :
       i < j =>
         \/ list[i].score > list[j].score
         \/ list[i].score = list[j].score /\ list[i].teamNumber <= list[j].teamNumber

\* C14: every list passed to the subscribeToScoreboard callback holds every
\* team record that was in the store at the time of the notification, sorted
\* by score descending, then teamNumber ascending.
C14_FullSortedList ==
  delivered.count > 0 => IsFullSortedList(delivered.list, delivered.snap)

\* the value event number v, raised by a successful updateScore, is waiting
UpdateEventWaiting(v) ==
  \E i \in 1..Len(feed.queue) :
    feed.queue[i].ver = v /\ feed.queue[i].op = "updateScore"

\* the callback's last invocation was for event v and its list shows the
\* written record with the score of that event's snapshot
UpdateShown(v) ==
  /\ delivered.ver = v /\ ~delivered.error
  /\ \E i \in 1..Len(delivered.list) :
       /\ delivered.list[i].uid = delivered.key
       /\ delivered.list[i] = delivered.snap[delivered.key]

\* the newest waiting event carries the store as it is now
FeedCurrent ==
  feed.queue # << >> => feed.queue[Len(feed.queue)].store = db

\* the callback is invoked for the events one by one, in the order raised
InOrder ==
  (delivered'.count # delivered.count /\ ~delivered'.error) =>
     delivered'.ver = delivered.ver + 1

C17_CheckFailureIsGeneric ==
  \A p \in Procs :
    (proc[p].op = "registerTeam" /\ proc[p].pc = "done" /\ proc[p].checkFault) =>
      proc[p].result = "StoreError"

\* C18: POST /api/register with a teamName or an email that a persisted
\* record already has, sign-in and reads succeeding, is answered with status
\* 400 and creates no record.
C18_DuplicateIs400 ==
  \A p \in Procs :
    (proc[p].op = "registerTeam" /\ proc[p].pc = "done" /\ ~proc[p].fault
       /\ (proc[p].dupName \/ proc[p].dupEmail)) =>
      /\ RegisterHttpStatus(proc[p].result) = 400
      /\ proc[p].ret = << >>

C19_ReadFailureIs500 ==
  \A p \in Procs :
    (proc[p].op = "getAllTeams" /\ proc[p].pc = "done") =>
      /\ proc[p].fault => ScoreboardHttpStatus(proc[p].result) = 500
      /\ ScoreboardHttpStatus(proc[p].result) = 200 =>
            IsFullSortedList(proc[p].ret, db)

\* C20: a /api/team request whose store read succeeds answers 400 when
\* neither uid nor teamName is given; 200 with the persisted record (its
\* current score included) when uid is the uid of a persisted record, or when
\* only teamName is given and is the teamName of one; and 404 when the uid,
\* or the teamName given alone, matches no record.
C20_TeamLookup ==
  \A p \in Procs :
    (proc[p].op = "team" /\ proc[p].pc = "done" /\ ~proc[p].fault) =>
      LET uid == proc[p].body.uid
          teamName == proc[p].body.teamName
          status == TeamHttpStatus(proc[p].result)
      IN /\ (Falsy(uid) /\ Falsy(teamName)) => status = 400
         /\ (~Falsy(uid) /\ uid.v \in DOMAIN db) =>
              status = 200 /\ proc[p].ret = db[uid.v]
         /\ (~Falsy(uid) /\ uid.v \notin DOMAIN db) => status = 404
         /\ (Falsy(uid) /\ ~Falsy(teamName)) =>
              IF \E k \in DOMAIN db : db[k].teamName = teamName.v
              THEN /\ status = 200
                   /\ \E k \in DOMAIN db : db[k] = proc[p].ret
                   /\ proc[p].ret.teamName = teamName.v
              ELSE status = 404

\* the request came through a route, with the fields as submitted
Submitted(p) == proc[p].op = "registerTeam" /\ proc[p].body # NoBody

\* C21: a registration whose trimmed teamName has fewer than 2 or more than
\* 30 characters, through either route, ends with a validation error in the
\* step that receives it: it never reaches a store access.
C21_NameLengthValidated ==
  \A p \in Procs :
    (/\ Submitted(p)
     /\ (Len(Trim(proc[p].body.teamName)) < 2 \/ Len(Trim(proc[p].body.teamName)) > 30))
    => /\ proc[p].pc = "done"
       /\ proc[p].result \in { "MissingFields", "InvalidEmail", "NameLength" }

\* C22: a registerTeam call whose count query (getNextTeamNumber) failed does
\* not succeed: it persists no record and hands out no teamNumber.
C22_CountFailureFails ==
  \A p \in Procs :
    (proc[p].op = "registerTeam" /\ proc[p].pc = "done" /\ proc[p].countFault) =>
      proc[p].result # "ok"

C23_Order ==
  \A p \in Procs :
    proc[p].op = "registerTeam" =>
      /\ proc[p].pc \in { "rt_count", "rt_set" } =>
            proc[p].nameTaken = "no" /\ proc[p].emailTaken = "no"
      /\ (proc[p].nameTaken = "yes" \/ proc[p].emailTaken = "yes") =>
            /\ proc[p].pc \in { "rt_checks", "done" }
            /\ proc[p].teamNumber = 0
            /\ proc[p].result # "ok"

C23_Frame ==
  \A p \in Procs :
    (proc[p].op = "registerTeam" /\ db' # db) =>
      /\ proc[p].pc = "rt_set"
      /\ proc[p].nameTaken = "no" /\ proc[p].emailTaken = "no"

\* C23: with calls running one at a time, a registerTeam call counts and
\* writes only after both uniqueness checks have answered not-taken; a call
\* in which a check answered taken makes no count query and no write.
C23_WriteAfterChecks == [] C23_Order /\ [][C23_Frame]_vars

\* C23 witness: with a record persisted, a call whose name check answered
\* not-taken and whose email check answered taken has ended without a count
C23_Witness ==
  \E p \in Procs :
    /\ proc[p].op = "registerTeam" /\ proc[p].pc = "done"
    /\ proc[p].nameTaken = "no" /\ proc[p].emailTaken = "yes"
    /\ proc[p].teamNumber = 0 /\ proc[p].result = "EmailTaken"
    /\ Cardinality(DOMAIN db) = 1

\* C24: a registerTeam call that passed sign-in and whose teamName and email
\* are both persisted fails with the name-taken error (which carries the
\* call's team name), not with the email-taken error.
C24_NameErrorFirst ==
  \A p \in Procs :
    (/\ proc[p].op = "registerTeam" /\ proc[p].pc = "done"
     /\ proc[p].dupName /\ proc[p].dupEmail
     /\ proc[p].result # "AuthRequired")
    => proc[p].result = "NameTaken"

\* C24 witness: a call with the name and the email of the one persisted
\* record has ended with the name-taken error, both checks having answered
C24_Witness ==
  \E p \in Procs :
    /\ proc[p].op = "registerTeam" /\ proc[p].pc = "done"
    /\ proc[p].dupName /\ proc[p].dupEmail /\ ~proc[p].fault
    /\ proc[p].nameTaken = "yes" /\ proc[p].emailTaken = "yes"
    /\ proc[p].result = "NameTaken"
    /\ \E k \in DOMAIN db : db[k].teamName = proc[p].teamName

C25_Step ==
  \A p \in Procs :
    proc'[p].op = "updateScore" =>
      IF proc[p].pc = "us_update" /\ proc'[p].result = "ok"
      THEN /\ DOMAIN db' = DOMAIN db
           /\ \A k \in DOMAIN db : k # proc[p].uid => db'[k] = db[k]
           /\ SameButScore(db[proc[p].uid], db'[proc[p].uid])
           /\ db'[proc[p].uid].score = db[proc[p].uid].score + proc[p].inc
      ELSE db' = db

\* C25: with calls running one at a time, the step in which an updateScore
\* call succeeds changes only the score field of the record under its uid
\* (by the increment); every other field of it, every other record and the
\* set of records are unchanged, and no other step of the call changes the store.
C25_OnlyScoreChanges == [][C25_Step]_vars

\* C25 witness: with two records persisted, an updateScore call has succeeded
\* and the two scores differ
C25_Witness ==
  /\ \E p \in Procs :
       proc[p].op = "updateScore" /\ proc[p].pc = "done" /\ proc[p].result = "ok"
  /\ \E k1, k2 \in DOMAIN db : db[k1].score # db[k2].score

\* the number held as v is an integer
IsInteger(v) == v % ScoreUnit = 0

\* C26: every persisted score is an integer, and a POST /api/update-score
\* request whose scoreIncrement is a number that is not an integer is
\* answered 400 with a validation error by the step that receives it.
C26_ScoresAreIntegers ==
  /\ \A k \in DOMAIN db : IsInteger(db[k].score)
  /\ \A p \in Procs :
       (/\ proc[p].op = "updateScore"
        /\ proc[p].body.scoreIncrement.t = "number"
        /\ ~IsInteger(proc[p].body.scoreIncrement.v))
       => /\ proc[p].pc = "done"
          /\ HttpStatus(proc[p].result) = 400

\* C27: a verifyOTP call with the OTP of the last storeOTP for that email,
\* made before that call's expiration instant and with no successful
\* verifyOTP for the email since, returns true, whatever earlier storeOTP
\* calls and their cleanup timers did.
C27_LatestOtpVerifies ==
  (verified.count > 0 /\ verified.entitled) => verified.result

\* C28: once verifyOTP has returned true for an email, a later verifyOTP call
\* for that email, in any letter case, returns false until storeOTP is called
\* again for it.
C28_SingleUse ==
  (verified.count > 0 /\ verified.afterUse) => ~verified.result

\* C28 witness: a second verifyOTP call for a used email, written with
\* upper-case letters, has returned false while the first OTP's lifetime had
\* not ended
C28_Witness ==
  /\ verified.count = 2 /\ verified.afterUse /\ ~verified.result
  /\ verified.email # ToLowerCase(verified.email)
  /\ ~verified.expired /\ clock = 0

\* C29: verifyOTP does not return true when the entry it finds has an
\* expiration time earlier than the current time, the cleanup timer having
\* run or not.
C29_ExpiredNeverVerifies ==
  (verified.count > 0 /\ verified.expired) => ~verified.result

\* C29 witness: verifyOTP has found an expired entry whose cleanup timer had
\* not run, returned false, and removed the entry
C29_Witness ==
  /\ verified.count > 0 /\ verified.expired /\ verified.timerPending
  /\ ~verified.result
  /\ DOMAIN otpStore = { }

\* C30: the Scoreboard page shows connectionStatus 'connected' with the error
\* cleared only once a snapshot has been received, and after the listener
\* has reported an error the page does not show 'connected' with an empty
\* team list.
C30_ConnectedAfterSnapshot ==
  /\ page.connectionStatus = "connected" => delivered.snapshots > 0
  /\ (delivered.error /\ ~delivered.afterCancel)
       => ~(page.connectionStatus = "connected" /\ page.teams = << >>)

====
